---- MODULE Spec2Model ----
(***************************************************************************)
(* The ffmpeg-backed player of cosmic-player (src/src/ffmpeg/player.rs):   *)
(* the VideoQueue and AudioQueue, the audio device callback, and the       *)
(* demux/decode driver loop with its synchronization anchor and seeks.     *)
(*                                                                         *)
(* Representation.  Option<T> is a sequence of length at most one: None is *)
(* <<>> and Some(x) is <<x>>.  Instants and Durations are integers in      *)
(* milliseconds.  A Video picture is identified by its pts.                *)
(***************************************************************************)
EXTENDS Integers, Sequences, FiniteSets, TLC

None == <<>>
Some(x) == <<x>>
IsSome(o) == o # <<>>
Unwrap(o) == o[1]

Range(s) == {s[i] : i \in 1..Len(s)}
MaxOf(S) == CHOOSE m \in S : \A x \in S : x <= m
MinOf(S) == CHOOSE m \in S : \A x \in S : m <= x

\* ------------------------------------------------------------------ bounds
\* number of VideoQueue::push calls explored by SpecVQ
MaxPushes == 4
\* presentation instants the pushes of SpecVQ draw from
VQInstants == {3, 5, 8, 9}

\* samples one SpecAQ append may carry, and the AudioQueue length it explores
MaxPlane == 2
MaxAudioSamples == 4
\* largest sample value of SpecAQ (0 is also the value of silence)
MaxSample == 1
\* largest buffer size one audio device callback asks for
MaxCallback == 3
\* output delays the audio device reports (None: the timestamps do not subtract)
DeviceDelays == {None, Some(50)}

\* PlayerMessages the UI sends in one run
MaxSeeks == 1
\* frames the model lets wait in the cpu_frame channel and in the VideoQueue
MaxCpuFrames == 2
MaxVideoFrames == 2
\* samples the model lets wait in the AudioQueue of the pipeline
MaxQueued == 6
\* the clock advances TickMs at a time, MaxTicks times
TickMs == 300
MaxTicks == 1
MaxAppended == 6
MaxExtraCalls == 2

VARIABLES
    video_queue,    \* VideoQueue { data, delay } behind video_queue_lock
    audio_queue,    \* AudioQueue { channels, rate, data, delay } behind audio_queue_lock
    pushed,         \* history: the frames handed to VideoQueue::push, in order
    vq_op,          \* history: the last VideoQueue operation and what it saw
    cb,             \* history: the last audio device callback and what it wrote
    pc,             \* where the ffmpeg thread (the demux/decode driver) is
    ictx,           \* the container: index of the next packet to read
    wake,           \* when the thread::sleep of the pacing step returns
    sync_time_opt,  \* the synchronization anchor
    seconds_opt,    \* last known audio position, in milliseconds
    player_rx,      \* the PlayerMessage channel (player_tx, player_rx)
    sent,           \* number of PlayerMessages the UI has sent
    video_packet,   \* sync_channel(2) from the driver to video_decode
    gpu_frame,      \* sync_channel(2) from video_decode to video_map_gpu_cpu
    cpu_frame,      \* channel from video_map_gpu_cpu to video_scale
    thread,         \* state of the video_decode, video_map_gpu_cpu, video_scale threads
    now,            \* Instant::now(), in milliseconds
    seek_log,       \* history: the PlayerMessage handled in this turn of the loop, and what it did
    timed_chunk,    \* history: an audio frame with a pts was processed since start or seek
    presented,      \* history: instants of the last two timed frames the display removed
    hw_device_ctx,  \* whether the video decoder was given a hardware device context
    hist,           \* history: what the latest open, read, decode, map and pacing steps did
    mutex,          \* the thread holding the VideoQueue mutex and the AudioQueue mutex
    at,             \* the operation each thread is at in its program
    args,           \* Args::parse_args: its position, decoder, and the latest from_str
    iter,           \* the SupportedDeviceIter, and what its calls of next() returned
    video_decoder   \* the loop of video_decode: its position, its sync_time_opt, the
                    \* frames the decoder holds, and the frames it has yielded

locks == <<mutex, at>>
hardware == <<args, iter>>
queues == <<video_queue, audio_queue, pushed, vq_op, cb>>
pipeline == <<pc, ictx, wake, sync_time_opt, seconds_opt, player_rx, sent, video_packet,
              gpu_frame, cpu_frame, thread, now, seek_log, timed_chunk, presented,
                   hw_device_ctx, hist, locks, hardware, video_decoder>>
pipeline_but_thread == <<pc, ictx, wake, sync_time_opt, seconds_opt, player_rx, sent,
                         video_packet, gpu_frame, cpu_frame, now, seek_log, timed_chunk,
                         presented,
                   hw_device_ctx, hist, locks, hardware, video_decoder>>
pipeline_but_locks == <<pc, ictx, wake, sync_time_opt, seconds_opt, player_rx, sent,
                        video_packet, gpu_frame, cpu_frame, thread, now, seek_log,
                        timed_chunk, presented, hw_device_ctx, hist, hardware, video_decoder>>
pipeline_but_locks_hardware ==
    <<pc, ictx, wake, sync_time_opt, seconds_opt, player_rx, sent, video_packet, gpu_frame,
      cpu_frame, thread, now, seek_log, timed_chunk, presented, hw_device_ctx, hist,
      video_decoder>>
vars == <<queues, pipeline>>

\* ------------------------------------------------------------ VideoQueue
\* VideoFrame(pub Video, pub Option<Instant>)
VideoFrame(pts, time) == [pts |-> pts, time |-> time]

\* VideoQueue::new
VideoQueueNew == [data |-> <<>>, delay |-> 0]

\* mutant: the closure with map_or(false, ..), which rejects a frame without
\* an instant
RetainPredTimedOnly(other, frame) ==
    IF other.time = None
    THEN FALSE
    ELSE LET x == Unwrap(other.time)
         IN  x <= (IF frame.time = None THEN x ELSE Unwrap(frame.time))

\* the closure given to retain in VideoQueue::push:
\*   |other| other.1.map_or(true, |x| x <= frame.1.unwrap_or(x))
RetainPred(other, frame) ==
    IF other.time = None
    THEN TRUE
    ELSE LET x == Unwrap(other.time)
         IN  x <= (IF frame.time = None THEN x ELSE Unwrap(frame.time))

\* VecDeque::retain: keeps, in order, the elements the closure accepts
RECURSIVE Retain(_, _)
Retain(data, frame) ==
    IF data = <<>>
    THEN <<>>
    ELSE LET rest == Retain(Tail(data), frame)
         IN  IF RetainPred(Head(data), frame) THEN <<Head(data)>> \o rest ELSE rest

\* mutants of VideoQueue::push
PushNoDiscard(queue, frame) == [queue EXCEPT !.data = Append(queue.data, frame)]
PushStrict(queue, frame) ==
    [queue EXCEPT !.data =
        Append(SelectSeq(queue.data,
                         LAMBDA o : o.time = None
                                    \/ frame.time = None
                                    \/ Unwrap(o.time) < Unwrap(frame.time)),
               frame)]
PushDiscardOlder(queue, frame) ==
    [queue EXCEPT !.data =
        Append(SelectSeq(queue.data,
                         LAMBDA o : o.time = None
                                    \/ frame.time = None
                                    \/ Unwrap(o.time) >= Unwrap(frame.time)),
               frame)]

\* VideoQueue::push
Push(queue, frame) ==
    [queue EXCEPT !.data = Append(Retain(queue.data, frame), frame)]

\* the loop of VideoQueue::duration: start_end_opt after the frames of data
RECURSIVE StartEnd(_, _)
StartEnd(data, start_end_opt) ==
    IF data = <<>>
    THEN start_end_opt
    ELSE LET frame == Head(data)
             next == IF frame.time = None
                     THEN start_end_opt
                     ELSE LET frame_time == Unwrap(frame.time)
                          IN  IF start_end_opt = None
                              THEN Some(<<frame_time, frame_time>>)
                              ELSE LET start == Unwrap(start_end_opt)[1]
                                       end == Unwrap(start_end_opt)[2]
                                   IN  Some(<<IF start < frame_time THEN start ELSE frame_time,
                                              IF end > frame_time THEN end ELSE frame_time>>)
         IN  StartEnd(Tail(data), next)

\* mutant of VideoQueue::duration: the loop starts after the front frame
DurationSkipFront(queue) ==
    LET start_end_opt == StartEnd(IF queue.data = <<>> THEN <<>> ELSE Tail(queue.data), None)
    IN  IF start_end_opt = None
        THEN 0
        ELSE Unwrap(start_end_opt)[2] - Unwrap(start_end_opt)[1]

\* VideoQueue::duration
Duration(queue) ==
    LET start_end_opt == StartEnd(queue.data, None)
    IN  IF start_end_opt = None
        THEN 0
        ELSE Unwrap(start_end_opt)[2] - Unwrap(start_end_opt)[1]

\* VecDeque::pop_front on VideoQueue.data (the display-pull site)
PopFront(queue) == [queue EXCEPT !.data = Tail(queue.data)]

\* mutant: the purge replaces the container by a new one
ClearReplace(queue) == VideoQueueNew

\* VecDeque::clear on VideoQueue.data (the seek purge)
Clear(queue) == [queue EXCEPT !.data = <<>>]

NoOp == [op |-> "none"]

\* ------------------------------------------------------------ AudioQueue
\* AudioQueue::new(channels, rate)
AudioQueueNew(channels, rate) ==
    [channels |-> channels, rate |-> rate, data |-> <<>>, delay |-> 0]

\* AudioQueue::duration_for_samples, in milliseconds
DurationForSamples(queue, samples) ==
    LET frames == samples \div queue.channels
    IN  (frames * 1000) \div queue.rate

\* AudioQueue::duration
AudioDuration(queue) == DurationForSamples(queue, Len(queue.data))

\* audio_queue.data.extend(plane)
Extend(queue, plane) == [queue EXCEPT !.data = queue.data \o plane]

\* the loop of data_fn over the device buffer: n more samples to write
RECURSIVE FillSamples(_, _, _, _)
FillSamples(data, n, out, underrun) ==
    IF n = 0
    THEN [data |-> data, out |-> out, underrun |-> underrun]
    ELSE IF data # <<>>
         THEN FillSamples(Tail(data), n - 1, Append(out, Head(data)), underrun)
         ELSE FillSamples(data, n - 1, Append(out, 0), underrun + 1)

\* mutant of data_fn: an empty queue is not counted as an underrun
DataFnNoCount(queue, size, delay) ==
    LET r == FillSamples(queue.data, size, <<>>, 0)
    IN  [queue |-> [queue EXCEPT !.data = r.data,
                                 !.delay = IF delay = None THEN 0 ELSE Unwrap(delay)],
         out |-> r.out, underrun |-> 0]

\* mutant of data_fn: samples are taken from the back of the queue
DataFnPopBack(queue, size, delay) ==
    LET q == Len(queue.data)
        k == IF q < size THEN q ELSE size
    IN  [queue |-> [queue EXCEPT !.data = SubSeq(queue.data, 1, q - k),
                                 !.delay = IF delay = None THEN 0 ELSE Unwrap(delay)],
         out |-> [i \in 1..size |-> IF i <= k THEN queue.data[q + 1 - i] ELSE 0],
         underrun |-> size - k]

\* data_fn of cpal_stream for a device buffer of `size` samples:
\* the queue it leaves, the floats it converts into the buffer, its underrun
DataFn(queue, size, delay) ==
    LET r == FillSamples(queue.data, size, <<>>, 0)
    IN  [queue |-> [queue EXCEPT !.data = r.data,
                                 !.delay = IF delay = None THEN 0 ELSE Unwrap(delay)],
         out |-> r.out, underrun |-> r.underrun]

\* audio_queue.data.clear()
ClearSamples(queue) == [queue EXCEPT !.data = <<>>]

\* ------------------------------------------------- VideoQueue operations
\* video_queue.push(video_frame) with an arbitrary presentation instant
VQPush ==
    /\ Len(pushed) < MaxPushes
    /\ \E time \in {None} \cup {Some(t) : t \in VQInstants} :
         LET frame == VideoFrame(Len(pushed) + 1, time)
         IN  /\ video_queue' = Push(video_queue, frame)
             /\ pushed' = Append(pushed, frame)
             /\ vq_op' = [op |-> "push", frame |-> frame, before |-> video_queue.data]
             /\ UNCHANGED <<audio_queue, cb, pipeline>>

\* a front removal by the display-pull site
VQPopFront ==
    /\ video_queue.data # <<>>
    /\ video_queue' = PopFront(video_queue)
    /\ vq_op' = [op |-> "pop_front", frame |-> Head(video_queue.data),
                 before |-> video_queue.data]
    /\ UNCHANGED <<pushed, audio_queue, cb, pipeline>>

\* video_queue.data.clear()
VQClear ==
    /\ video_queue.data # <<>>
    /\ video_queue' = Clear(video_queue)
    /\ vq_op' = [op |-> "clear", before |-> video_queue.data]
    /\ UNCHANGED <<pushed, audio_queue, cb, pipeline>>

\* video_queue.duration()
VQDuration ==
    /\ vq_op.op # "duration"
    /\ vq_op' = [op |-> "duration", result |-> Duration(video_queue),
                 before |-> video_queue.data]
    /\ UNCHANGED <<video_queue, pushed, audio_queue, cb, pipeline>>

\* ------------------------------------------------- AudioQueue operations
\* audio_queue.data.extend(plane) with an arbitrary plane of samples
AQExtend ==
    \E n \in 1..MaxPlane :
      /\ Len(audio_queue.data) + n <= MaxAudioSamples
      /\ \E plane \in [1..n -> 0..MaxSample] :
           audio_queue' = Extend(audio_queue, plane)
      /\ cb' = NoOp
      /\ UNCHANGED <<video_queue, pushed, vq_op, pipeline>>

\* one invocation of data_fn by the audio device
AQCallback ==
    \E size \in 1..MaxCallback, delay \in DeviceDelays :
      LET r == DataFn(audio_queue, size, delay)
      IN  /\ audio_queue' = r.queue
          /\ cb' = [op |-> "callback", size |-> size, out |-> r.out,
                    underrun |-> r.underrun, before |-> audio_queue.data]
          /\ UNCHANGED <<video_queue, pushed, vq_op, pipeline>>

\* audio_queue.data.clear()
AQClear ==
    /\ audio_queue.data # <<>>
    /\ audio_queue' = ClearSamples(audio_queue)
    /\ cb' = NoOp
    /\ UNCHANGED <<video_queue, pushed, vq_op, pipeline>>

\* the cpal default output configuration of the model: stereo at 10 frames a
\* second, so that one stereo frame lasts 100 ms
InitQueues ==
    /\ video_queue = VideoQueueNew
    /\ audio_queue = AudioQueueNew(2, 10)
    /\ pushed = <<>>
    /\ vq_op = NoOp
    /\ cb = NoOp


\* ------------------------------------------------------------- pipeline
\* The container of the model, in read order; pts in milliseconds (time base
\* 1/1000): an audio priming packet with a negative pts, audio and video near
\* the start, and audio and video again at 10 s.
Packet(stream, pts) == [stream |-> stream, pts |-> pts]
File ==
    << Packet("audio", Some(-100)),
       Packet("audio", Some(0)),
       Packet("video", Some(50)),
       Packet("audio", Some(10000)),
       Packet("video", Some(10000)) >>
Eof == Len(File) + 1

\* let buffer_duration = Duration::from_millis(250)
buffer_duration == 250
\* capacity of the two sync_channels
ChannelCapacity == 2
\* Message::SeekRelative(-10.0) and Message::SeekRelative(10.0)
SeekBackward == -10
SeekForward == 10

\* Duration::from_secs_f64 panics on a negative number of seconds
DurationPanics(ms) == ms < 0

Running(t) == thread[t] = "running"
\* the ffmpeg thread has neither returned nor panicked: its senders, its
\* receiver and the cpal stream it owns are alive
DriverAlive == pc \notin {"done", "panicked"}
\* cpal_stream.play() has been called and the stream has not been dropped
StreamPlaying == pc \notin {"open", "done", "panicked"}

\* frames the audio decoder yields for one packet: none, one carrying the
\* packet's pts, or two of which the second carries no pts
\* (a frame is one sample per channel; the samples of a frame with a pts and
\* those of a frame without differ)
AudioFrame(pts) == [pts |-> pts, plane |-> IF pts = None THEN <<0, 1>> ELSE <<1, 0>>]
DecodedBatches(pkt) ==
    { <<>>,
      <<AudioFrame(pkt.pts)>>,
      <<AudioFrame(pkt.pts), AudioFrame(None)>> }

HistNew == [open |-> "none", decode |-> "none", read |-> "none", map |-> NoOp,
            audio |-> NoOp, pace |-> NoOp,
            fifo |-> [chunks |-> <<>>, written |-> <<>>]]

\* the three video threads before and after thread::Builder::spawn
ThreadsNew == [video_decode |-> "unspawned", video_map_gpu_cpu |-> "unspawned",
               video_scale |-> "unspawned"]
ThreadsSpawned == [video_decode |-> "running", video_map_gpu_cpu |-> "running",
                   video_scale |-> "running"]

\* let mut decoder = None, before the first argument
ArgsNew == [pc |-> "parse", decoder |-> None, from_str |-> NoOp]

\* the threads that take a mutex or wait: the ffmpeg thread, its three video
\* threads, and the audio device's callback
Threads == {"ffmpeg", "video_scale", "video_map_gpu_cpu", "video_decode", "data_fn"}

\* video_decode before its first recv, with a decoder that holds nothing
VideoDecoderNew == [pc |-> "recv", eof |-> FALSE, sync_time_opt |-> None, held |-> <<>>,
                    received |-> None, emitted |-> {}]

\* Mutex::new: nobody holds the VideoQueue mutex or the AudioQueue mutex
MutexNew == [video |-> "none", audio |-> "none"]

InitPipeline ==
    /\ pc = "open"
    /\ ictx = 1
    /\ wake = 0
    /\ sync_time_opt = None
    /\ seconds_opt = None
    /\ player_rx = <<>>
    /\ sent = 0
    /\ video_packet = <<>>
    /\ gpu_frame = <<>>
    /\ cpu_frame = <<>>
    /\ thread = ThreadsNew
    /\ now = 0
    /\ seek_log = NoOp
    /\ timed_chunk = FALSE
    /\ presented = [prev |-> None, last |-> None]
    /\ hw_device_ctx = FALSE
    /\ hist = HistNew
    /\ mutex = MutexNew
    /\ at = [t \in Threads |-> 1]
    /\ args = ArgsNew
    /\ iter = NoOp
    /\ video_decoder = VideoDecoderNew

\* how the setup of ffmpeg_thread can end: Ok, input(&path) fails, there is
\* no video stream, there is no audio stream
OpenOutcomes == {"ok", "input", "no_video", "no_audio"}

\* mutant: the driver goes on to the read loop whatever the setup found
OpenResultIgnored(outcome) == "read"

\* where the ffmpeg thread is after the setup: every failure is returned with ?
\* and unwrapped by run
OpenResult(outcome) == IF outcome = "ok" THEN "read" ELSE "panicked"

\* the video threads are spawned after the video decoder is built and before
\* the audio stream is looked up
SpawnedBefore(outcome) == outcome \in {"ok", "no_audio"}

\* the setup of ffmpeg_thread, up to cpal_stream.play(); av_hwdevice_ctx_create
\* succeeds or fails, and its failure is only logged
Open ==
    /\ pc = "open"
    /\ \E outcome \in OpenOutcomes, hw \in BOOLEAN :
         /\ pc' = OpenResult(outcome)
         /\ thread' = IF SpawnedBefore(outcome) THEN ThreadsSpawned ELSE thread
         /\ hw_device_ctx' = (SpawnedBefore(outcome) /\ hw)
         /\ hist' = [hist EXCEPT !.open = outcome]
    /\ UNCHANGED <<queues, ictx, wake, sync_time_opt, seconds_opt, player_rx, sent,
                   video_packet, gpu_frame, cpu_frame, now, seek_log, timed_chunk,
                   presented, locks, hardware, video_decoder>>

\* mutant: the send does not wait for room in the channel
DriverReadVideoNoWait ==
    /\ pc = "read"
    /\ ictx < Eof
    /\ File[ictx].stream = "video"
    /\ IF ~Running("video_decode")
       THEN /\ pc' = "panicked"
            /\ UNCHANGED video_packet
       ELSE /\ video_packet' = Append(video_packet,
                                      [pts |-> File[ictx].pts, sync |-> sync_time_opt])
            /\ pc' = "pace"
    /\ ictx' = ictx + 1
    /\ UNCHANGED <<queues, wake, sync_time_opt, seconds_opt, player_rx, sent, gpu_frame,
                   cpu_frame, thread, now, seek_log, timed_chunk, presented,
                   hw_device_ctx, hist, locks, hardware, video_decoder>>

\* packet.read gives a video packet: video_packet_tx.send((packet, sync_time_opt))
DriverReadVideo ==
    /\ pc = "read"
    /\ ictx < Eof
    /\ File[ictx].stream = "video"
    /\ IF ~Running("video_decode")
       THEN /\ pc' = "panicked"
            /\ UNCHANGED video_packet
       ELSE /\ Len(video_packet) < ChannelCapacity
            /\ video_packet' = Append(video_packet,
                                      [pts |-> File[ictx].pts, sync |-> sync_time_opt])
            /\ pc' = "pace"
    /\ ictx' = ictx + 1
    /\ UNCHANGED <<queues, wake, sync_time_opt, seconds_opt, player_rx, sent, gpu_frame,
                   cpu_frame, thread, now, seek_log, timed_chunk, presented,
                   hw_device_ctx, hist, locks, hardware, video_decoder>>

\* mutant: the anchor is set again by every chunk with a pts
SyncSetupAlways(sync, pts, clock) == Some(clock - pts)

\* the tail of receive_and_process_decoded_audio_frames for pts_opt = Some(pts):
\* the anchor it leaves
SyncSetup(sync, pts, clock) ==
    IF sync # None THEN sync ELSE Some(clock - pts)

\* mutant: only the most recent frame of the batch is appended
ReceiveFramesLast(queue, pts_opt, decoded) ==
    IF decoded = <<>>
    THEN [queue |-> queue, pts_opt |-> pts_opt]
    ELSE [queue |-> Extend(queue, decoded[Len(decoded)].plane),
          pts_opt |-> decoded[Len(decoded)].pts]

\* the while loop of receive_and_process_decoded_audio_frames: every decoded
\* frame is appended to the AudioQueue and overwrites pts_opt
RECURSIVE ReceiveFrames(_, _, _)
ReceiveFrames(queue, pts_opt, decoded) ==
    IF decoded = <<>>
    THEN [queue |-> queue, pts_opt |-> pts_opt]
    ELSE ReceiveFrames(Extend(queue, Head(decoded).plane), Head(decoded).pts,
                       Tail(decoded))

\* samples a batch of decoded frames carries
RECURSIVE BatchSamples(_)
BatchSamples(decoded) ==
    IF decoded = <<>> THEN 0 ELSE Len(Head(decoded).plane) + BatchSamples(Tail(decoded))

\* packet.read gives an audio packet: audio_decoder.send_packet(&packet)?,
\* receive_and_process_decoded_audio_frames(..)?, then the seconds_opt update
DriverReadAudio ==
    /\ pc = "read"
    /\ ictx < Eof
    /\ File[ictx].stream = "audio"
    /\ ictx' = ictx + 1
    /\ \/ \* send_packet fails
          /\ pc' = "panicked"
          /\ hist' = [hist EXCEPT !.decode = "audio"]
          /\ UNCHANGED <<audio_queue, sync_time_opt, seconds_opt, timed_chunk>>
       \/ \* audio_resampler.run(..)? fails on frame i, after the frames before it
          \E decoded \in DecodedBatches(File[ictx]) : \E i \in 1..Len(decoded) :
            LET received == ReceiveFrames(audio_queue, None, SubSeq(decoded, 1, i - 1))
            IN  /\ Len(audio_queue.data) + BatchSamples(decoded) <= MaxQueued
                /\ audio_queue' = received.queue
                /\ pc' = "panicked"
                /\ hist' = [hist EXCEPT !.decode = "resample"]
                /\ UNCHANGED <<sync_time_opt, seconds_opt, timed_chunk>>
       \/ \E decoded \in DecodedBatches(File[ictx]) :
            LET received == ReceiveFrames(audio_queue, None, decoded)
            IN  /\ Len(audio_queue.data) + BatchSamples(decoded) <= MaxQueued
                /\ audio_queue' = received.queue
                /\ timed_chunk' = (timed_chunk
                                   \/ \E i \in 1..Len(decoded) : decoded[i].pts # None)
                /\ hist' = [hist EXCEPT !.audio = [op |-> "received",
                                                before |-> audio_queue.data,
                                                decoded |-> decoded,
                                                after |-> received.queue.data]]
                /\ IF received.pts_opt # None /\ DurationPanics(Unwrap(received.pts_opt))
                   THEN /\ pc' = "panicked"
                        /\ UNCHANGED <<sync_time_opt, seconds_opt>>
                   ELSE /\ sync_time_opt' =
                               IF received.pts_opt = None
                               THEN sync_time_opt
                               ELSE SyncSetup(sync_time_opt, Unwrap(received.pts_opt), now)
                        /\ seconds_opt' = IF File[ictx].pts = None THEN seconds_opt
                                          ELSE File[ictx].pts
                        /\ pc' = "pace"
    /\ UNCHANGED <<video_queue, pushed, vq_op, cb, wake, player_rx, sent, video_packet,
                   gpu_frame, cpu_frame, thread, now, seek_log, presented,
                   hw_device_ctx, locks, hardware, video_decoder>>

\* packet.read fails with Err(Eof): the loop ends, audio_decoder.send_eof, a
\* last receive from the drained decoder, return Ok(())
DriverReadEof ==
    /\ pc = "read"
    /\ ictx = Eof
    /\ pc' = "done"
    /\ UNCHANGED <<queues, ictx, wake, sync_time_opt, seconds_opt, player_rx, sent,
                   video_packet, gpu_frame, cpu_frame, thread, now, seek_log, timed_chunk,
                   presented,
                   hw_device_ctx, hist, locks, hardware, video_decoder>>

\* packet.read fails with any other error: Err(_err) => {}
DriverReadError ==
    /\ pc = "read"
    /\ pc' = "pace"
    /\ hist' = [hist EXCEPT !.read = "error"]
    /\ UNCHANGED <<queues, ictx, wake, sync_time_opt, seconds_opt, player_rx, sent,
                   video_packet, gpu_frame, cpu_frame, thread, now, seek_log, timed_chunk,
                   presented,
                   hw_device_ctx, locks, hardware, video_decoder>>

\* mutant: the audio delay is not added
PaceDelayNoAudio(video_queue_duration, audio_queue_delay) ==
    IF video_queue_duration < buffer_duration
    THEN buffer_duration - video_queue_duration
    ELSE 0

\* video_queue.delay as the pacing step sets it
PaceDelay(video_queue_duration, audio_queue_delay) ==
    (IF video_queue_duration < buffer_duration
     THEN buffer_duration - video_queue_duration
     ELSE 0) + audio_queue_delay

\* mutant: the sleep is decided on the larger of the two durations
PaceSleepEither(video_queue_duration, audio_queue_duration) ==
    LET max_queue_duration ==
            IF video_queue_duration > audio_queue_duration
            THEN video_queue_duration ELSE audio_queue_duration
    IN  IF max_queue_duration > buffer_duration
        THEN Some(max_queue_duration - buffer_duration)
        ELSE None

\* the sleep of the pacing step, if any: cmp::min of the two durations, and
\* what it has above buffer_duration
PaceSleep(video_queue_duration, audio_queue_duration) ==
    LET min_queue_duration ==
            IF video_queue_duration < audio_queue_duration
            THEN video_queue_duration ELSE audio_queue_duration
    IN  IF min_queue_duration > buffer_duration
        THEN Some(min_queue_duration - buffer_duration)
        ELSE None

\* the pacing step: the audio lock scope, the video lock scope, and the
\* decision to sleep
DriverPace ==
    /\ pc = "pace"
    /\ hist' = [hist EXCEPT !.audio = NoOp, !.read = "none",
                             !.pace = [op |-> "pace",
                                       video_queue_duration |-> Duration(video_queue),
                                       audio_queue_delay |-> audio_queue.delay,
                                       before |-> video_queue.delay]]
    /\ LET audio_queue_duration == AudioDuration(audio_queue)
           audio_queue_delay == audio_queue.delay
           video_queue_duration == Duration(video_queue)
           sleep == PaceSleep(video_queue_duration, audio_queue_duration)
       IN  /\ video_queue' = [video_queue EXCEPT !.delay =
                                 PaceDelay(video_queue_duration, audio_queue_delay)]
           /\ IF sleep # None
              THEN /\ pc' = "sleep"
                   /\ wake' = now + Unwrap(sleep)
              ELSE /\ pc' = "drain"
                   /\ UNCHANGED wake
    /\ UNCHANGED <<audio_queue, pushed, vq_op, cb, ictx, sync_time_opt, seconds_opt,
                   player_rx, sent, video_packet, gpu_frame, cpu_frame, thread, now,
                   seek_log, timed_chunk, presented,
                   hw_device_ctx, locks, hardware, video_decoder>>

\* thread::sleep(sleep) returns
DriverSleep ==
    /\ pc = "sleep"
    /\ now >= wake
    /\ pc' = "drain"
    /\ wake' = 0
    /\ UNCHANGED <<queues, ictx, sync_time_opt, seconds_opt, player_rx, sent, video_packet,
                   gpu_frame, cpu_frame, thread, now, seek_log, timed_chunk, presented,
                   hw_device_ctx, hist, locks, hardware, video_decoder>>

\* ((seconds + seek_seconds) * 1000000.0) as i64, in microseconds; seconds is
\* kept in milliseconds and seek_seconds in seconds, and a millisecond is 1000
\* microseconds
SeekTimestamp(seconds, seek_seconds) ==
    (seconds + seek_seconds * 1000) * 1000

\* seek_seconds.is_sign_negative()
SeekDirection(seek_seconds) == IF seek_seconds < 0 THEN "backward" ELSE "forward"

\* where the container can land for ictx.seek(timestamp, ..timestamp) and for
\* ictx.seek(timestamp, timestamp..): the nearest packet on the asked side of
\* the timestamp; a backward seek before the first packet may land on it
PtsMicros(i) == Unwrap(File[i].pts) * 1000
SeekLands(timestamp, direction) ==
    IF direction = "backward"
    THEN LET S == {i \in 1..Len(File) : PtsMicros(i) <= timestamp}
         IN  IF S = {} THEN {1} ELSE {MaxOf(S)}
    ELSE LET S == {i \in 1..Len(File) : PtsMicros(i) >= timestamp}
         IN  IF S = {} THEN {} ELSE {MinOf(S)}

\* mutant: a seek without a known audio position counts from the start
SeekFromStart(seconds) == IF seconds = None THEN Some(0) ELSE seconds

\* if let Some(seconds) = seconds_opt: the position a seek counts from, if any
SeekFrom(seconds) == seconds

\* while let Ok(message) = player_rx.try_recv(): one PlayerMessage::SeekRelative
DriverCommand ==
    /\ pc = "drain"
    /\ player_rx # <<>>
    /\ player_rx' = Tail(player_rx)
    /\ LET seek_seconds == Head(player_rx)
       IN  IF SeekFrom(seconds_opt) = None
           THEN /\ seek_log' = [op |-> "seek", seek_seconds |-> seek_seconds,
                                seconds_opt |-> seconds_opt, result |-> "discarded",
                                sync_before |-> sync_time_opt,
                                sync_after |-> sync_time_opt]
                /\ UNCHANGED <<video_queue, audio_queue, pc, ictx, sync_time_opt,
                               timed_chunk>>
           ELSE LET timestamp == SeekTimestamp(Unwrap(SeekFrom(seconds_opt)), seek_seconds)
                    direction == SeekDirection(seek_seconds)
                    issued == [op |-> "seek", seek_seconds |-> seek_seconds,
                               seconds_opt |-> seconds_opt, timestamp |-> timestamp,
                               direction |-> direction, sync_before |-> sync_time_opt]
                IN  \/ \* ictx.seek(..)? fails: ffmpeg_thread returns the error
                       /\ pc' = "panicked"
                       /\ seek_log' = issued @@ [result |-> "failed",
                                                 sync_after |-> sync_time_opt]
                       /\ UNCHANGED <<video_queue, audio_queue, ictx, sync_time_opt,
                                      timed_chunk>>
                    \/ \E land \in SeekLands(timestamp, direction) :
                         /\ ictx' = land
                         /\ sync_time_opt' = None
                         /\ audio_queue' = ClearSamples(audio_queue)
                         /\ video_queue' = Clear(video_queue)
                         /\ timed_chunk' = FALSE
                         /\ seek_log' = issued @@
                                [result |-> "applied", sync_after |-> sync_time_opt',
                                 audio_before |-> audio_queue, audio_after |-> audio_queue',
                                 video_before |-> video_queue, video_after |-> video_queue']
                         /\ UNCHANGED pc
    /\ UNCHANGED <<pushed, vq_op, cb, wake, seconds_opt, sent, video_packet, gpu_frame,
                   cpu_frame, thread, now, presented,
                   hw_device_ctx, hist, locks, hardware, video_decoder>>

\* player_rx.try_recv() finds the channel empty: back to packet.read
DriverDrained ==
    /\ pc = "drain"
    /\ player_rx = <<>>
    /\ pc' = "read"
    /\ seek_log' = NoOp
    /\ hist' = [hist EXCEPT !.pace = NoOp]
    /\ UNCHANGED <<queues, ictx, wake, sync_time_opt, seconds_opt, player_rx, sent,
                   video_packet, gpu_frame, cpu_frame, thread, now, timed_chunk,
                   presented,
                   hw_device_ctx, locks, hardware, video_decoder>>

Driver ==
    \/ Open
    \/ DriverReadVideo \/ DriverReadAudio \/ DriverReadEof \/ DriverReadError
    \/ DriverPace \/ DriverSleep \/ DriverCommand \/ DriverDrained

\* ---------------------------------------------------------- video threads
\* the frame video_decoder.receive_frame yields for a packet: it has a hardware
\* frame context exactly when the decoder was given a hardware device context
DecodedVideo(recv, hw) == [pts |-> recv.pts, sync |-> recv.sync, hw |-> hw]

\* video_decode: one packet received, sent to the decoder, its frame sent on
VideoDecode ==
    /\ Running("video_decode")
    /\ video_packet # <<>>
    /\ video_packet' = Tail(video_packet)
    /\ \/ \* video_decoder.send_packet(&packet).unwrap() on an error
          /\ thread' = [thread EXCEPT !.video_decode = "panicked"]
          /\ hist' = [hist EXCEPT !.decode = "video"]
          /\ UNCHANGED gpu_frame
       \/ /\ IF ~Running("video_map_gpu_cpu")
             THEN /\ thread' = [thread EXCEPT !.video_decode = "panicked"]
                  /\ UNCHANGED gpu_frame
             ELSE /\ Len(gpu_frame) < ChannelCapacity
                  /\ gpu_frame' = Append(gpu_frame,
                                         DecodedVideo(Head(video_packet), hw_device_ctx))
                  /\ UNCHANGED thread
          /\ UNCHANGED hist
    /\ UNCHANGED <<queues, pc, ictx, wake, sync_time_opt, seconds_opt, player_rx, sent,
                   cpu_frame, now, seek_log, timed_chunk, presented,
                   hw_device_ctx, locks, hardware, video_decoder>>

\* mutant: the recv on the empty channel never fails
VideoDecodeEofNever ==
    /\ Running("video_decode")
    /\ video_packet = <<>>
    /\ ~DriverAlive
    /\ UNCHANGED vars

\* video_decode: recv fails once the driver is gone and the channel is empty:
\* send_eof, and the loop ends
VideoDecodeEof ==
    /\ Running("video_decode")
    /\ video_packet = <<>>
    /\ ~DriverAlive
    /\ thread' = [thread EXCEPT !.video_decode = "done"]
    /\ UNCHANGED <<queues, pipeline_but_thread>>

\* mutant: every frame goes through the transfer
MapGpuCpuAlways(recv) ==
    [frame |-> [pts |-> recv.pts, sync |-> recv.sync, hw |-> FALSE], transfer |-> TRUE]

\* the body of video_map_gpu_cpu: a frame without hardware frame context is
\* the cpu frame; any other is transferred into a new frame, which is given
\* the pts of the gpu frame and sent with the same anchor
MapGpuCpu(recv) ==
    IF ~recv.hw
    THEN [frame |-> recv, transfer |-> FALSE]
    ELSE [frame |-> [pts |-> recv.pts, sync |-> recv.sync, hw |-> FALSE],
          transfer |-> TRUE]

\* video_map_gpu_cpu: one frame received, mapped and sent on
VideoMap ==
    /\ Running("video_map_gpu_cpu")
    /\ gpu_frame # <<>>
    /\ gpu_frame' = Tail(gpu_frame)
    /\ LET recv == Head(gpu_frame)
           mapped == MapGpuCpu(recv)
       IN  \/ \* av_hwframe_transfer_data fails: panic!
              /\ mapped.transfer
              /\ thread' = [thread EXCEPT !.video_map_gpu_cpu = "panicked"]
              /\ hist' = [hist EXCEPT !.map = [op |-> "map", in |-> recv,
                                               transfer |-> TRUE, result |-> "panicked"]]
              /\ UNCHANGED cpu_frame
           \/ IF ~Running("video_scale")
              THEN /\ thread' = [thread EXCEPT !.video_map_gpu_cpu = "panicked"]
                   /\ UNCHANGED <<cpu_frame, hist>>
              ELSE /\ Len(cpu_frame) < MaxCpuFrames
                   /\ cpu_frame' = Append(cpu_frame, mapped.frame)
                   /\ hist' = [hist EXCEPT !.map = [op |-> "map", in |-> recv,
                                                    transfer |-> mapped.transfer,
                                                    result |-> "sent",
                                                    out |-> mapped.frame]]
                   /\ UNCHANGED thread
    /\ UNCHANGED <<queues, pc, ictx, wake, sync_time_opt, seconds_opt, player_rx, sent,
                   video_packet, now, seek_log, timed_chunk, presented,
                   hw_device_ctx, locks, hardware, video_decoder>>

\* video_map_gpu_cpu: gpu_frame_rx.recv().unwrap() on a closed, empty channel
VideoMapClosed ==
    /\ Running("video_map_gpu_cpu")
    /\ gpu_frame = <<>>
    /\ ~Running("video_decode")
    /\ thread' = [thread EXCEPT !.video_map_gpu_cpu = "panicked"]
    /\ UNCHANGED <<queues, pipeline_but_thread>>

\* mutant: the anchor alone, whatever the pts
PresentTimeAnchor(pts_opt, sync_time) == sync_time

\* present_time_opt of the video_scale thread
PresentTime(pts_opt, sync_time) ==
    IF pts_opt # None /\ sync_time # None
    THEN Some(Unwrap(sync_time) + Unwrap(pts_opt))
    ELSE None

\* video_scale: one frame received, scaled and pushed to the VideoQueue
VideoScale ==
    /\ Running("video_scale")
    /\ cpu_frame # <<>>
    /\ cpu_frame' = Tail(cpu_frame)
    /\ LET recv == Head(cpu_frame)
       IN  IF recv.pts # None /\ DurationPanics(Unwrap(recv.pts))
           THEN /\ thread' = [thread EXCEPT !.video_scale = "panicked"]
                /\ UNCHANGED video_queue
           ELSE /\ Len(video_queue.data) < MaxVideoFrames
                /\ video_queue' = Push(video_queue,
                                       VideoFrame(recv.pts, PresentTime(recv.pts, recv.sync)))
                /\ UNCHANGED thread
    /\ UNCHANGED <<audio_queue, pushed, vq_op, cb, pc, ictx, wake, sync_time_opt,
                   seconds_opt, player_rx, sent, video_packet, gpu_frame, now, seek_log,
                   timed_chunk, presented,
                   hw_device_ctx, hist, locks, hardware, video_decoder>>

\* video_scale: cpu_frame_rx.recv().unwrap() on a closed, empty channel
VideoScaleClosed ==
    /\ Running("video_scale")
    /\ cpu_frame = <<>>
    /\ ~Running("video_map_gpu_cpu")
    /\ thread' = [thread EXCEPT !.video_scale = "panicked"]
    /\ UNCHANGED <<queues, pipeline_but_thread>>

\* ------------------------------------- video_decode with a decoder that holds frames
\* mutant: sync_time_opt declared before the loop, so that it keeps the anchor
\* of the last packet when the recv fails
DecodeTagKept(previous, packet_res) ==
    IF packet_res = None THEN previous ELSE Unwrap(packet_res).sync

\* sync_time_opt of one turn of the loop of video_decode: None at the start of
\* the turn, and the time_opt of the packet if the recv gave one
DecodeTag(previous, packet_res) ==
    IF packet_res = None THEN None ELSE Unwrap(packet_res).sync

\* video_decode: video_packet_rx.recv() gives a packet, which is sent to the
\* decoder; the decoder holds its frame
VideoDecodeRecv ==
    /\ Running("video_decode")
    /\ video_decoder.pc = "recv"
    /\ video_packet # <<>>
    /\ video_packet' = Tail(video_packet)
    /\ LET packet_res == Some(Head(video_packet))
           tagged == [video_decoder EXCEPT
                         !.sync_time_opt = DecodeTag(@, packet_res),
                         !.received = packet_res]
       IN  \/ \* video_decoder.send_packet(&packet).unwrap() on an error
              /\ thread' = [thread EXCEPT !.video_decode = "panicked"]
              /\ hist' = [hist EXCEPT !.decode = "video"]
              /\ video_decoder' = tagged
           \/ /\ video_decoder' = [tagged EXCEPT !.pc = "frames",
                                                 !.held = Append(@, Head(video_packet).pts)]
              /\ UNCHANGED <<thread, hist>>
    /\ UNCHANGED <<queues, pc, ictx, wake, sync_time_opt, seconds_opt, player_rx, sent,
                   gpu_frame, cpu_frame, now, seek_log, timed_chunk, presented,
                   hw_device_ctx, locks, hardware>>

\* video_decode: the recv fails once the driver is gone and the channel is
\* empty: video_decoder.send_eof(), eof = true
VideoDecodeSendEof ==
    /\ Running("video_decode")
    /\ video_decoder.pc = "recv"
    /\ video_packet = <<>>
    /\ ~DriverAlive
    /\ video_decoder' = [video_decoder EXCEPT
                             !.pc = "frames",
                             !.eof = TRUE,
                             !.sync_time_opt = DecodeTag(@, None),
                             !.received = None]
    /\ UNCHANGED <<queues, pc, ictx, wake, sync_time_opt, seconds_opt, player_rx, sent,
                   video_packet, gpu_frame, cpu_frame, thread, now, seek_log, timed_chunk,
                   presented, hw_device_ctx, hist, locks, hardware>>

\* video_decode: receive_frame yields the oldest frame the decoder holds, and
\* gpu_frame_tx.send((gpu_frame, sync_time_opt)).unwrap()
VideoDecodeReceiveFrame ==
    /\ Running("video_decode")
    /\ video_decoder.pc = "frames"
    /\ video_decoder.held # <<>>
    /\ LET recv == [pts |-> Head(video_decoder.held),
                    sync |-> video_decoder.sync_time_opt]
       IN  IF ~Running("video_map_gpu_cpu")
           THEN /\ thread' = [thread EXCEPT !.video_decode = "panicked"]
                /\ UNCHANGED <<gpu_frame, video_decoder>>
           ELSE /\ Len(gpu_frame) < ChannelCapacity
                /\ gpu_frame' = Append(gpu_frame, DecodedVideo(recv, hw_device_ctx))
                /\ video_decoder' = [video_decoder EXCEPT
                       !.held = Tail(@),
                       !.emitted = @ \cup {[pts |-> recv.pts,
                                            received |-> video_decoder.received,
                                            flush |-> video_decoder.eof]}]
                /\ UNCHANGED thread
    /\ UNCHANGED <<queues, pc, ictx, wake, sync_time_opt, seconds_opt, player_rx, sent,
                   video_packet, cpu_frame, now, seek_log, timed_chunk, presented,
                   hw_device_ctx, hist, locks, hardware>>

\* video_decode: receive_frame is not ok (the decoder wants another packet, or
\* after send_eof it holds nothing more): break, and the loop ends if eof
VideoDecodeBreak ==
    /\ Running("video_decode")
    /\ video_decoder.pc = "frames"
    /\ video_decoder.eof => video_decoder.held = <<>>
    /\ IF video_decoder.eof
       THEN /\ thread' = [thread EXCEPT !.video_decode = "done"]
            /\ UNCHANGED video_decoder
       ELSE /\ video_decoder' = [video_decoder EXCEPT !.pc = "recv"]
            /\ UNCHANGED thread
    /\ UNCHANGED <<queues, pc, ictx, wake, sync_time_opt, seconds_opt, player_rx, sent,
                   video_packet, gpu_frame, cpu_frame, now, seek_log, timed_chunk,
                   presented, hw_device_ctx, hist, locks, hardware>>

\* ------------------------------------------------ display, device, UI, clock
\* the display-pull site: the front frame is due (its instant plus the queue's
\* delay is at or before now, or it has no instant) and is removed
FrameDue(frame, delay, clock) ==
    IF frame.time = None THEN TRUE ELSE Unwrap(frame.time) + delay <= clock

DisplayPull ==
    /\ video_queue.data # <<>>
    /\ FrameDue(Head(video_queue.data), video_queue.delay, now)
    /\ video_queue' = PopFront(video_queue)
    /\ presented' = IF Head(video_queue.data).time = None
                    THEN presented
                    ELSE [prev |-> presented.last, last |-> Head(video_queue.data).time]
    /\ UNCHANGED <<audio_queue, pushed, vq_op, cb, pc, ictx, wake, sync_time_opt,
                   seconds_opt, player_rx, sent, video_packet, gpu_frame, cpu_frame, thread,
                   now, seek_log, timed_chunk, hw_device_ctx, hist, locks, hardware, video_decoder>>

\* buffer sizes of the output stream: whole frames of interleaved samples
DeviceBuffers(channels) == {size \in 1..MaxCallback : size % channels = 0}

\* the audio device calls data_fn while the stream the driver owns is alive
AudioCallback ==
    /\ StreamPlaying
    /\ \E size \in DeviceBuffers(audio_queue.channels), delay \in DeviceDelays :
         audio_queue' = DataFn(audio_queue, size, delay).queue
    /\ UNCHANGED <<video_queue, pushed, vq_op, cb, pipeline>>

\* the UI sends PlayerMessage::SeekRelative; the send fails once player_rx is gone
UISend ==
    /\ sent < MaxSeeks
    /\ sent' = sent + 1
    /\ \E seek_seconds \in {SeekBackward, SeekForward} :
         player_rx' = IF DriverAlive THEN Append(player_rx, seek_seconds) ELSE player_rx
    /\ UNCHANGED <<queues, pc, ictx, wake, sync_time_opt, seconds_opt, video_packet,
                   gpu_frame, cpu_frame, thread, now, seek_log, timed_chunk, presented,
                   hw_device_ctx, hist, locks, hardware, video_decoder>>

\* time passes
Tick ==
    /\ now < MaxTicks * TickMs
    /\ now' = now + TickMs
    /\ UNCHANGED <<queues, pc, ictx, wake, sync_time_opt, seconds_opt, player_rx, sent,
                   video_packet, gpu_frame, cpu_frame, thread, seek_log, timed_chunk,
                   presented,
                   hw_device_ctx, hist, locks, hardware, video_decoder>>

Init == InitQueues /\ InitPipeline

Next ==
    \/ Driver
    \/ VideoDecode \/ VideoDecodeEof \/ VideoMap \/ VideoMapClosed
    \/ VideoScale \/ VideoScaleClosed
    \/ DisplayPull \/ AudioCallback \/ UISend \/ Tick

\* the player after a successful open: the driver, the three video threads,
\* the audio device, the display and the UI
Spec == Init /\ [][Next]_vars

InitVQ == InitQueues /\ InitPipeline

NextVQ == VQPush \/ VQPopFront \/ VQClear \/ VQDuration

InitShutdown == InitQueues /\ InitPipeline

NextShutdown ==
    \/ Open
    \/ DriverReadVideo \/ DriverReadAudio \/ DriverReadEof \/ DriverReadError
    \/ DriverPace \/ DriverSleep \/ DriverDrained
    \/ VideoDecode \/ VideoDecodeEof \/ VideoMap \/ VideoMapClosed
    \/ VideoScale \/ VideoScaleClosed
    \/ DisplayPull \/ AudioCallback \/ Tick

\* the player without commands from the UI, with the operating system
\* scheduling every video thread that can take a step
SpecShutdown ==
    /\ InitShutdown
    /\ [][NextShutdown]_vars
    /\ WF_vars(VideoDecode \/ VideoDecodeEof)
    /\ WF_vars(VideoMap \/ VideoMapClosed)
    /\ WF_vars(VideoScale \/ VideoScaleClosed)

\* the VideoQueue under arbitrary pushes, front removals, clears and queries
SpecVQ == InitVQ /\ [][NextVQ]_vars

InitAQ == InitQueues /\ InitPipeline

NextAQ == AQExtend \/ AQCallback \/ AQClear

\* the AudioQueue under arbitrary appends, device callbacks and clears
SpecAQ == InitAQ /\ [][NextAQ]_vars

\* presentation instants of the frames video_scale pushes, around the target
PaceInstants == {0, 100, 250, 400}

\* video_scale pushes a scaled frame with a presentation instant
PacePush ==
    /\ Len(video_queue.data) < MaxVideoFrames
    /\ \E t \in PaceInstants :
         video_queue' = Push(video_queue, VideoFrame(Some(t), Some(t)))
    /\ UNCHANGED <<audio_queue, pushed, vq_op, cb, pipeline>>

InitPace == InitQueues /\ InitPipeline

NextPace ==
    \/ Open \/ DriverReadError \/ DriverPace \/ DriverDrained
    \/ PacePush \/ DisplayPull \/ AudioCallback

\* the pacing step of the driver over video queues of every buffered duration
\* and the delays the audio device reports
SpecPace == InitPace /\ [][NextPace]_vars

InitDecode == InitQueues /\ InitPipeline

NextDecode ==
    \/ Open \/ DriverReadVideo \/ DriverReadAudio \/ DriverReadEof
    \/ DriverPace \/ DriverSleep \/ DriverDrained
    \/ VideoDecodeRecv \/ VideoDecodeSendEof \/ VideoDecodeReceiveFrame \/ VideoDecodeBreak
    \/ VideoMap \/ VideoMapClosed \/ VideoScale \/ VideoScaleClosed
    \/ Tick

\* playback to the end of the container with a video decoder that may hold
\* frames until later packets or until the flush
SpecDecode == InitDecode /\ [][NextDecode]_vars

InitSeek == InitQueues /\ InitPipeline

NextSeek ==
    \/ Open \/ DriverReadError \/ DriverPace \/ DriverCommand \/ DriverDrained
    \/ PacePush \/ AQExtend \/ UISend

\* the command loop of the driver while no audio packet with a pts has been
\* read, over queues that video_scale and the resample stage have filled
SpecSeek == InitSeek /\ [][NextSeek]_vars

\* ------------------------------------------------- locks and blocking waits
\* one operation of a thread's program: what it does, on which mutex, the
\* operations that can follow it, and its line in src/ffmpeg/player.rs
Op(op, m, next, line) == [op |-> op, mutex |-> m, next |-> next, line |-> line]

\* the operations in which a thread waits: Receiver::recv, SyncSender::send,
\* thread::sleep and packet.read
Blocking == {"recv", "send", "sleep", "read"}

\* the main loop up to the pacing step: packet.read, then the video packet
\* sent to video_decode, or the audio packet decoded and each of its frames
\* resampled and appended in the scope of the AudioQueue guard
FfmpegRead ==
    << Op("read", "none", {2, 3, 8, 23}, 543),
       Op("send", "none", {8}, 546),
       Op("work", "none", {4, 8}, 548),
       Op("work", "none", {5}, 490),
       Op("lock", "audio", {6}, 500),
       Op("work", "audio", {7}, 501),
       Op("unlock", "audio", {4, 8}, 502) >>

\* mutant: thread::sleep inside the scope of the VideoQueue guard
FfmpegPaceSleepLocked ==
    << Op("lock", "audio", {9}, 563),
       Op("work", "audio", {10}, 564),
       Op("unlock", "audio", {11}, 565),
       Op("lock", "video", {12}, 568),
       Op("work", "video", {13, 14}, 569),
       Op("sleep", "none", {14}, 594),
       Op("unlock", "video", {15}, 579) >>

\* the pacing step: the scope of the AudioQueue guard, the scope of the
\* VideoQueue guard, and after both the sleep, if there is enough queued
FfmpegPace ==
    << Op("lock", "audio", {9}, 563),
       Op("work", "audio", {10}, 564),
       Op("unlock", "audio", {11}, 565),
       Op("lock", "video", {12}, 568),
       Op("work", "video", {13}, 569),
       Op("unlock", "video", {14, 15}, 579),
       Op("sleep", "none", {15}, 594) >>

\* mutant: the VideoQueue is cleared inside the scope of the AudioQueue guard
FfmpegCommandsNested ==
    << Op("work", "none", {16, 1}, 597),
       Op("work", "none", {17}, 608),
       Op("lock", "audio", {18}, 618),
       Op("work", "audio", {19}, 619),
       Op("lock", "video", {20}, 623),
       Op("work", "video", {21}, 624),
       Op("unlock", "video", {22}, 625),
       Op("unlock", "audio", {15}, 620) >>

\* the PlayerMessage loop: try_recv, the seek, and the two queues cleared, each
\* in the scope of its guard
FfmpegCommands ==
    << Op("work", "none", {16, 1}, 597),
       Op("work", "none", {17}, 608),
       Op("lock", "audio", {18}, 618),
       Op("work", "audio", {19}, 619),
       Op("unlock", "audio", {20}, 620),
       Op("lock", "video", {21}, 623),
       Op("work", "video", {22}, 624),
       Op("unlock", "video", {15}, 625) >>

\* after the loop: send_eof and the frames the decoder still yields
FfmpegEof ==
    << Op("work", "none", {24}, 632),
       Op("work", "none", {25, 28}, 487),
       Op("lock", "audio", {26}, 500),
       Op("work", "audio", {27}, 501),
       Op("unlock", "audio", {24}, 502),
       Op("end", "none", {}, 635) >>

\* video_scale: recv, scale, push in the scope of the VideoQueue guard
VideoScaleProgram ==
    << Op("recv", "none", {2}, 289),
       Op("work", "none", {3}, 307),
       Op("lock", "video", {4}, 324),
       Op("work", "video", {5}, 325),
       Op("unlock", "video", {1}, 326) >>

\* video_map_gpu_cpu: recv, transfer, send on the unbounded cpu_frame channel
VideoMapProgram ==
    << Op("recv", "none", {2}, 352),
       Op("work", "none", {3}, 364),
       Op("work", "none", {1}, 385) >>

\* video_decode: recv, send_packet, and each frame sent on the gpu_frame channel
VideoDecodeProgram ==
    << Op("recv", "none", {2}, 402),
       Op("work", "none", {3}, 412),
       Op("work", "none", {4, 1}, 430),
       Op("send", "none", {3}, 432) >>

\* data_fn: the delay and the samples taken in the scope of the AudioQueue guard
DataFnProgram ==
    << Op("work", "none", {2}, 179),
       Op("lock", "audio", {3}, 184),
       Op("work", "audio", {4}, 186),
       Op("unlock", "audio", {1}, 196) >>

Program(t) ==
    CASE t = "ffmpeg" -> FfmpegRead \o FfmpegPace \o FfmpegCommands \o FfmpegEof
      [] t = "video_scale" -> VideoScaleProgram
      [] t = "video_map_gpu_cpu" -> VideoMapProgram
      [] t = "video_decode" -> VideoDecodeProgram
      [] t = "data_fn" -> DataFnProgram

Current(t) == Program(t)[at[t]]

Goes(t) == \E next \in Current(t).next : at' = [at EXCEPT ![t] = next]

\* lock().unwrap(): the mutex is free and becomes the thread's
LockStep(t) ==
    /\ Current(t).op = "lock"
    /\ mutex[Current(t).mutex] = "none"
    /\ mutex' = [mutex EXCEPT ![Current(t).mutex] = t]
    /\ Goes(t)
    /\ UNCHANGED <<queues, pipeline_but_locks, hardware, video_decoder>>

\* the guard goes out of scope
UnlockStep(t) ==
    /\ Current(t).op = "unlock"
    /\ mutex' = [mutex EXCEPT ![Current(t).mutex] = "none"]
    /\ Goes(t)
    /\ UNCHANGED <<queues, pipeline_but_locks, hardware, video_decoder>>

\* a recv, send, sleep or packet.read returns
BlockingStep(t) ==
    /\ Current(t).op \in Blocking
    /\ Goes(t)
    /\ UNCHANGED <<queues, pipeline_but_locks, mutex>>

\* any other operation
WorkStep(t) ==
    /\ Current(t).op = "work"
    /\ Goes(t)
    /\ UNCHANGED <<queues, pipeline_but_locks, mutex>>

Lock == \E t \in Threads : LockStep(t)
Unlock == \E t \in Threads : UnlockStep(t)
Wait == \E t \in Threads : BlockingStep(t)
Work == \E t \in Threads : WorkStep(t)

InitLock == InitQueues /\ InitPipeline

NextLock == Lock \/ Unlock \/ Wait \/ Work

\* the five threads, each through the lock scopes and the blocking waits of its
\* program
SpecLock == InitLock /\ [][NextLock]_vars

\* ------------------------------------------- appends against callbacks
\* all the samples of a sequence of planes, in order
RECURSIVE Concat(_)
Concat(chunks) == IF chunks = <<>> THEN <<>> ELSE Head(chunks) \o Concat(Tail(chunks))

\* the resample stage appends one plane in the scope of the AudioQueue guard;
\* the k-th sample appended since the start has the value k, so that every
\* sample can be told from every other and from the silence 0.0
FifoExtend ==
    /\ \E n \in 1..MaxPlane :
         LET k == Len(Concat(hist.fifo.chunks))
             plane == [i \in 1..n |-> k + i]
         IN  /\ k + n <= MaxAppended
             /\ audio_queue' = Extend(audio_queue, plane)
             /\ hist' = [hist EXCEPT !.fifo.chunks = Append(@, plane)]
    /\ UNCHANGED <<video_queue, pushed, vq_op, cb, pc, ictx, wake, sync_time_opt,
                   seconds_opt, player_rx, sent, video_packet, gpu_frame, cpu_frame, thread,
                   now, seek_log, timed_chunk, presented, hw_device_ctx, locks, hardware, video_decoder>>

\* the audio device calls data_fn; what it wrote that is not the silence of
\* an underrun is the first size - underrun samples of the buffer
FifoCallback ==
    /\ \E size \in 1..MaxCallback, delay \in DeviceDelays :
         LET r == DataFn(audio_queue, size, delay)
         IN  /\ audio_queue' = r.queue
             /\ hist' = [hist EXCEPT !.fifo.written =
                                         @ \o SubSeq(r.out, 1, size - r.underrun)]
    /\ UNCHANGED <<video_queue, pushed, vq_op, cb, pc, ictx, wake, sync_time_opt,
                   seconds_opt, player_rx, sent, video_packet, gpu_frame, cpu_frame, thread,
                   now, seek_log, timed_chunk, presented, hw_device_ctx, locks, hardware, video_decoder>>

InitFifo == InitQueues /\ InitPipeline

NextFifo == FifoExtend \/ FifoCallback

\* the AudioQueue between the resample stage and the audio device, without seek
SpecFifo == InitFifo /\ [][NextFifo]_vars

\* ------------------------------------------------ hardware decoder names
\* enum DeviceType
DeviceType ==
    {"None", "Cuda", "D3d11va", "D3d12va", "Dxva2", "Drm", "MediaCodec", "OpenCl", "Qsv",
     "Vaapi", "Vdpau", "VideoToolbox", "Vulkan"}

\* DeviceType::short_name
short_name(self) ==
    CASE self = "None" -> "none"
      [] self = "Cuda" -> "cuda"
      [] self = "Dxva2" -> "dxva2"
      [] self = "D3d11va" -> "d3d11va"
      [] self = "D3d12va" -> "d3d12va"
      [] self = "Drm" -> "drm"
      [] self = "MediaCodec" -> "mediacodec"
      [] self = "OpenCl" -> "opencl"
      [] self = "Qsv" -> "qsv"
      [] self = "Vaapi" -> "vaapi"
      [] self = "Vdpau" -> "vdpau"
      [] self = "VideoToolbox" -> "videotoolbox"
      [] self = "Vulkan" -> "vulkan"

Ok(value) == [ok |-> TRUE, value |-> value]
Err(error) == [ok |-> FALSE, error |-> error]

\* DeError::invalid_value(Unexpected::Str(s), &"valid hardware decoder"): the
\* string it was given and the words of what it expected
InvalidValue(s) == [unexpected |-> s, expected |-> <<"valid", "hardware", "decoder">>]

\* <DeviceType as FromStr>::from_str
from_str(s) ==
    CASE s = "none" -> Ok("None")
      [] s = "cuda" -> Ok("Cuda")
      [] s = "dxva2" -> Ok("Dxva2")
      [] s = "d3d11va" -> Ok("D3d11va")
      [] s = "d3d12va" -> Ok("D3d12va")
      [] s = "drm" -> Ok("Drm")
      [] s = "mediacodec" -> Ok("MediaCodec")
      [] s = "opencl" -> Ok("OpenCl")
      [] s = "qsv" -> Ok("Qsv")
      [] s = "vaapi" -> Ok("Vaapi")
      [] s = "vdpau" -> Ok("Vdpau")
      [] s = "videotoolbox" -> Ok("VideoToolbox")
      [] s = "vulkan" -> Ok("Vulkan")
      [] OTHER -> Err(InvalidValue(s))

\* values of --hwdec: what --list-hwdec prints for each type, and strings that
\* are no short name: empty, a variant name, a display name, other case, a
\* trailing space, a prefix
HwdecValues ==
    {short_name(d) : d \in DeviceType}
        \cup {"", "Vaapi", "VA-API", "CUDA", "vaapi ", "d3d12", "auto", "software"}

\* Long("hwdec") => decoder = Some(parser.value()?.parse()?)
ArgsHwdec ==
    /\ args.pc = "parse"
    /\ \E s \in HwdecValues :
         LET parsed == from_str(s)
         IN  args' = [pc |-> IF parsed.ok THEN "parse" ELSE "error",
                      decoder |-> IF parsed.ok THEN Some(parsed.value) ELSE args.decoder,
                      from_str |-> [op |-> "from_str", s |-> s, result |-> parsed]]
    /\ UNCHANGED <<queues, pipeline_but_locks_hardware, locks, iter>>

\* parser.next()? is None: Ok(Self { paths, decoder })
ArgsDone ==
    /\ args.pc = "parse"
    /\ args' = [args EXCEPT !.pc = "done"]
    /\ UNCHANGED <<queues, pipeline_but_locks_hardware, locks, iter>>

InitArgs == InitQueues /\ InitPipeline

NextArgs == ArgsHwdec \/ ArgsDone

\* Args::parse_args over --hwdec values
SpecArgs == InitArgs /\ [][NextArgs]_vars

\* --------------------------------------------- supported hardware decoders
\* AVHWDeviceType: AV_HWDEVICE_TYPE_NONE is 0, and the other types are 1 to 11
\* in the order of the enum; From<AVHWDeviceType> for DeviceType
AV_HWDEVICE_TYPE_NONE == 0
FromAV(value) ==
    CASE value = AV_HWDEVICE_TYPE_NONE -> "None"
      [] value = 1 -> "Vdpau"
      [] value = 2 -> "Cuda"
      [] value = 3 -> "Vaapi"
      [] value = 4 -> "Dxva2"
      [] value = 5 -> "Qsv"
      [] value = 6 -> "VideoToolbox"
      [] value = 7 -> "D3d11va"
      [] value = 8 -> "Drm"
      [] value = 9 -> "OpenCl"
      [] value = 10 -> "MediaCodec"
      [] value = 11 -> "Vulkan"
AVHWDeviceTypes == 1..11

\* av_hwdevice_iterate_types(prev) on a system that supports the types of
\* `supported`: the next supported type after prev, AV_HWDEVICE_TYPE_NONE when
\* there is none
av_hwdevice_iterate_types(supported, prev) ==
    LET later == {type \in supported : type > prev}
    IN  IF later = {} THEN AV_HWDEVICE_TYPE_NONE ELSE MinOf(later)

\* SupportedDeviceIter::default
SupportedDeviceIterDefault(supported) ==
    [op |-> "iter", supported |-> supported,
     current |-> av_hwdevice_iterate_types(supported, AV_HWDEVICE_TYPE_NONE),
     returned |-> <<>>]

\* mutant: next() without the test of the sentinel
SupportedDeviceIterNextUnfused(self) ==
    LET prev == self.current
    IN  [self EXCEPT !.current = av_hwdevice_iterate_types(self.supported, prev),
                     !.returned = Append(@, IF prev = AV_HWDEVICE_TYPE_NONE
                                            THEN None ELSE Some(FromAV(prev)))]

\* <SupportedDeviceIter as Iterator>::next: the iterator it leaves, with what
\* it returned added to the values returned so far
SupportedDeviceIterNext(self) ==
    IF self.current = AV_HWDEVICE_TYPE_NONE
    THEN [self EXCEPT !.returned = Append(@, None)]
    ELSE LET prev == self.current
         IN  [self EXCEPT !.current = av_hwdevice_iterate_types(self.supported, prev),
                          !.returned = Append(@, Some(FromAV(prev)))]

\* DeviceType::supported_devices() on a system with some set of supported types
IterDefault ==
    /\ iter = NoOp
    /\ \E supported \in SUBSET AVHWDeviceTypes :
         iter' = SupportedDeviceIterDefault(supported)
    /\ UNCHANGED <<queues, pipeline_but_locks_hardware, locks, args>>

\* one call of next(), also after the iterator has returned None
IterNext ==
    /\ iter # NoOp
    /\ Len(iter.returned) < Cardinality(iter.supported) + 1 + MaxExtraCalls
    /\ iter' = SupportedDeviceIterNext(iter)
    /\ UNCHANGED <<queues, pipeline_but_locks_hardware, locks, args>>

InitIter == InitQueues /\ InitPipeline

NextIter == IterDefault \/ IterNext

\* the SupportedDeviceIter on every set of supported types
SpecIter == InitIter /\ [][NextIter]_vars

\* ---------------------------------------------------- VideoQueue claims
TimedInstants(data) == {Unwrap(data[i].time) : i \in {j \in 1..Len(data) : data[j].time # None}}
Newer(other, t) == other.time # None /\ Unwrap(other.time) > t

\* C2: push(f) with f carrying instant t leaves exactly the previously queued
\* frames that are not newer than t, in their previous order, followed by f;
\* every previously queued frame strictly newer than t is gone.
C2_PushKeepsNotNewer ==
    (vq_op.op = "push" /\ vq_op.frame.time # None) =>
        LET t == Unwrap(vq_op.frame.time)
            kept == SelectSeq(vq_op.before, LAMBDA o : ~Newer(o, t))
        IN  /\ video_queue.data = kept \o <<vq_op.frame>>
            /\ \A o \in Range(vq_op.before) : Newer(o, t) => o \notin Range(video_queue.data)

C2_Witness ==
    /\ vq_op.op = "push"
    /\ vq_op.frame.time # None
    /\ \E o \in Range(vq_op.before) : Newer(o, Unwrap(vq_op.frame.time))
    /\ \E o \in Range(vq_op.before) :
         o.time # None /\ Unwrap(o.time) <= Unwrap(vq_op.frame.time)
    /\ Len(video_queue.data) >= 2

\* C3: starting from an empty VideoQueue, after any pushes, front removals and
\* clears, the instants of the queued frames that carry one are non-decreasing
\* from front to back.
C3_TimedNonDecreasing ==
    \A i, j \in 1..Len(video_queue.data) :
        (i < j /\ video_queue.data[i].time # None /\ video_queue.data[j].time # None)
            => Unwrap(video_queue.data[i].time) <= Unwrap(video_queue.data[j].time)

C3_Witness ==
    /\ Len(pushed) = MaxPushes
    /\ vq_op.op = "push"
    /\ Len(video_queue.data) < Len(vq_op.before) + 1
    /\ Cardinality(TimedInstants(video_queue.data)) >= 2

\* C4 as stated: a frame pushed with an instant older than the largest instant
\* queued at that moment is absent from the queue.
C4_LatePushAbsent ==
    (/\ vq_op.op = "push"
     /\ vq_op.frame.time # None
     /\ TimedInstants(vq_op.before) # {}
     /\ Unwrap(vq_op.frame.time) < MaxOf(TimedInstants(vq_op.before)))
        => vq_op.frame \notin Range(video_queue.data)

\* C4 amended: a frame pushed with an instant older than the largest instant
\* queued at that moment is kept as the last element, and it is the queued
\* frames with a newer instant that are absent: no frame whose instant is newer
\* than that of a frame pushed after it is ever in the queue.
C4_NewerThanLaterPushAbsent ==
    /\ \A i, j \in 1..Len(pushed) :
         (i < j /\ pushed[i].time # None /\ pushed[j].time # None
                /\ Unwrap(pushed[i].time) > Unwrap(pushed[j].time))
            => pushed[i] \notin Range(video_queue.data)
    /\ (vq_op.op = "push" /\ vq_op.frame.time # None)
            => video_queue.data[Len(video_queue.data)] = vq_op.frame

C4_Witness ==
    /\ vq_op.op = "push"
    /\ vq_op.frame.time # None
    /\ TimedInstants(vq_op.before) # {}
    /\ Unwrap(vq_op.frame.time) < MaxOf(TimedInstants(vq_op.before))
    /\ vq_op.frame \in Range(video_queue.data)

\* C5: duration() is the largest minus the smallest instant over the queued
\* frames that carry one, zero when there is none or one, and it leaves the
\* queue as it was.
C5_DurationIsMaxMinusMin ==
    vq_op.op = "duration" =>
        /\ vq_op.result = (IF TimedInstants(video_queue.data) = {}
                           THEN 0
                           ELSE MaxOf(TimedInstants(video_queue.data))
                                - MinOf(TimedInstants(video_queue.data)))
        /\ video_queue.data = vq_op.before

\* pushes of 5, 8, 3, 9: the frames 3 and 9 survive and the duration is 6
C5_Witness ==
    /\ vq_op.op = "duration"
    /\ [i \in 1..Len(pushed) |-> pushed[i].time] = <<Some(5), Some(8), Some(3), Some(9)>>
    /\ TimedInstants(video_queue.data) = {3, 9}
    /\ vq_op.result = 6

\* ---------------------------------------------------- AudioQueue claims
\* C6: one callback asking for K samples with q samples queued: if q < K the
\* first q outputs are the queued samples in order, the other K - q are silence,
\* the underrun count is K - q and the queue ends empty; if q >= K the K oldest
\* samples are removed and written and no underrun is counted.
C6_CallbackUnderrun ==
    cb.op = "callback" =>
        LET q == Len(cb.before)
            K == cb.size
        IN  /\ Len(cb.out) = K
            /\ q < K =>
                 /\ SubSeq(cb.out, 1, q) = cb.before
                 /\ \A i \in (q + 1)..K : cb.out[i] = 0
                 /\ cb.underrun = K - q
                 /\ audio_queue.data = <<>>
            /\ q >= K =>
                 /\ cb.out = SubSeq(cb.before, 1, K)
                 /\ cb.underrun = 0
                 /\ audio_queue.data = SubSeq(cb.before, K + 1, q)

C6_Witness ==
    /\ cb.op = "callback"
    /\ Len(cb.before) = 2
    /\ cb.size = 3
    /\ cb.before[1] # cb.before[2]
    /\ cb.underrun = 1
    /\ audio_queue.data = <<>>

\* ------------------------------------------------------ pipeline claims
\* C1 as stated: the timed frames the display removes from the front of the
\* VideoQueue come out with non-decreasing presentation instants, whatever the
\* interleaving of pushes, purges by seeks and removals.
C1_PresentedInOrder ==
    IF presented.prev = None \/ presented.last = None
    THEN TRUE
    ELSE Unwrap(presented.prev) <= Unwrap(presented.last)

\* C7 as stated: once an audio chunk with a known timestamp has been processed
\* since driver start or since the last applied seek, the anchor is established.
C7_AnchorAfterTimedChunk ==
    timed_chunk => sync_time_opt # None

\* C8 as stated: immediately after the driver has handled a SeekRelative it
\* consumed, the anchor is unestablished, whatever it was before and whatever
\* the offset.
C8_SeekResetsAnchor ==
    seek_log.op = "seek" => seek_log.sync_after = None

\* C9: an applied SeekRelative leaves the anchor unestablished, the AudioQueue
\* without samples and the VideoQueue without frames, and the two containers
\* keep their other fields: channel count, sample rate and delay.
C9_AppliedSeekPurges ==
    (seek_log.op = "seek" /\ seek_log.result = "applied") =>
        /\ seek_log.sync_after = None
        /\ sync_time_opt = None
        /\ seek_log.audio_after.data = <<>>
        /\ seek_log.video_after.data = <<>>
        /\ seek_log.audio_after.channels = seek_log.audio_before.channels
        /\ seek_log.audio_after.rate = seek_log.audio_before.rate
        /\ seek_log.audio_after.delay = seek_log.audio_before.delay
        /\ seek_log.video_after.delay = seek_log.video_before.delay

C9_Witness ==
    /\ seek_log.op = "seek"
    /\ seek_log.result = "applied"
    /\ seek_log.sync_before # None
    /\ seek_log.audio_before.data # <<>>
    /\ seek_log.video_before.data # <<>>
    /\ seek_log.audio_before.delay # 0
    /\ seek_log.video_before.delay # 0
    /\ audio_queue.data = <<>>
    /\ video_queue.data = <<>>

\* C10 as stated: a SeekRelative(s) issued at position p asks the container for
\* max(0, p + s) seconds in microseconds, backward when s is negative and
\* forward otherwise.
NonNegative(x) == IF x < 0 THEN 0 ELSE x
C10_SeekTargetClamped ==
    (seek_log.op = "seek" /\ seek_log.result # "discarded") =>
        /\ seek_log.timestamp =
               NonNegative(Unwrap(seek_log.seconds_opt) + seek_log.seek_seconds * 1000) * 1000
        /\ seek_log.direction =
               IF seek_log.seek_seconds < 0 THEN "backward" ELSE "forward"

\* C11 as stated: a SeekRelative whose container seek is rejected leaves the
\* driver running: it has neither returned nor panicked.
C11_FailedSeekNonFatal ==
    (seek_log.op = "seek" /\ seek_log.result = "failed") => DriverAlive

\* C12 as stated: a packet whose send_packet fails is dropped and its thread
\* goes on: the driver after an audio packet, video_decode after a video packet.
C12_DecodeErrorSkipped ==
    /\ hist.decode = "audio" => pc # "panicked"
    /\ hist.decode = "video" => thread.video_decode # "panicked"

\* C13 as stated: once packet.read has returned an error other than Eof, the
\* driver is out of its read loop and reads no further packet.
C13_ReadErrorEndsLoop ==
    hist.read = "error" => pc \in {"done", "panicked"}

\* C14 as stated: once set up on a container with both streams, the driver
\* ends only by observing Eof and returning; it is never ended by a panic
\* before that.
C14_DriverEndsAtEof ==
    hist.open = "ok" => pc # "panicked"

\* C15: after a failed open (the container cannot be opened, or lacks a video
\* or an audio stream) the ffmpeg thread has ended with the error, no packet
\* was read, no frame is in a channel, both queues are empty, the audio stream
\* does not play, and no worker thread stays running: a worker that is still
\* running has the closing of its input channel to observe, and ends on it.
OpenFailed == hist.open \in OpenOutcomes \ {"ok"}
WorkerRunning == \E t \in DOMAIN thread : Running(t)
C16_SoftwareFallback ==
    ~hw_device_ctx =>
        /\ \A i \in 1..Len(gpu_frame) : ~gpu_frame[i].hw
        /\ hist.map.op = "map" =>
               /\ ~hist.map.in.hw
               /\ ~hist.map.transfer
               /\ hist.map.result = "sent"
               /\ hist.map.out = hist.map.in
               /\ hist.map.out.pts = hist.map.in.pts
               /\ hist.map.out.sync = hist.map.in.sync

C16_Witness ==
    /\ hist.open = "ok"
    /\ ~hw_device_ctx
    /\ DriverAlive
    /\ hist.map.op = "map"
    /\ hist.map.in.pts # None
    /\ hist.map.in.sync # None
    /\ cpu_frame # <<>>
    /\ cpu_frame[Len(cpu_frame)] = hist.map.in

\* C17: for an audio packet the decoder accepted, the samples of every frame it
\* yields are appended to the AudioQueue whole and in order before the driver
\* gets back to packet.read: the queue is what it was, followed by the planes of
\* the frames, and the number of samples appended is the sum of the planes'
\* lengths, each a whole number of channel groups. The only frame that is not
\* appended is the one the resampler fails on, and then the driver has ended
\* and reads no other packet; nothing is ever appended in part.
RECURSIVE Planes(_)
Planes(decoded) ==
    IF decoded = <<>> THEN <<>> ELSE Head(decoded).plane \o Planes(Tail(decoded))

C18_ScaleKeepsMostRecent ==
    [][(Len(cpu_frame') < Len(cpu_frame) /\ Len(cpu_frame) > 1) =>
           /\ cpu_frame' = <<>>
           /\ video_queue'.data # <<>>
           /\ LET last == cpu_frame[Len(cpu_frame)]
              IN  video_queue'.data[Len(video_queue'.data)] =
                      VideoFrame(last.pts, PresentTime(last.pts, last.sync))]_vars

\* C19: the pacing step leaves VideoQueue.delay at max(0, 250 ms - buffered
\* video duration) plus the audio delay it read from the AudioQueue, whatever
\* the delay was before: 150 ms plus the audio delay for 100 ms buffered, the
\* audio delay alone at or above 250 ms, and never more than 250 ms plus the
\* audio delay.
C19_VideoDelay ==
    hist.pace.op = "pace" =>
        LET d == hist.pace.video_queue_duration
            a == hist.pace.audio_queue_delay
        IN  /\ video_queue.delay = NonNegative(250 - d) + a
            /\ d = 100 => video_queue.delay - a = 150
            /\ d >= 250 => video_queue.delay = a
            /\ video_queue.delay <= 250 + a

C19_Witness ==
    /\ hist.pace.op = "pace"
    /\ hist.pace.video_queue_duration = 100
    /\ hist.pace.audio_queue_delay = 50
    /\ hist.pace.before = 250
    /\ video_queue.delay = 200

\* C20: no thread holds the VideoQueue mutex or the AudioQueue mutex while it
\* is in a channel receive, a bounded-channel send, a thread sleep or a packet
\* read; a mutex is held only by a thread inside the scope of its guard.
C20_NoLockAcrossWait ==
    \A t \in Threads :
        /\ Current(t).op \in Blocking =>
               \A m \in DOMAIN mutex : mutex[m] # t
        /\ \A m \in DOMAIN mutex :
               mutex[m] = t <=> (Current(t).mutex = m /\ Current(t).op # "lock")

C20_Witness ==
    /\ at["ffmpeg"] = 14
    /\ Current("ffmpeg").op = "sleep"
    /\ mutex.video = "video_scale"
    /\ mutex.audio = "data_fn"
    /\ Current("video_decode").op = "send"

\* C21: the video_packet channel and the gpu_frame channel never hold more than
\* 2 items, and the driver at a video packet with the video_packet channel full
\* cannot go on until video_decode has taken an item: it is never more than 2
\* video packets ahead of video_decode.
DriverAtVideoPacket ==
    pc = "read" /\ ictx < Eof /\ File[ictx].stream = "video" /\ Running("video_decode")
C21_ChannelsBounded ==
    /\ Len(video_packet) <= 2
    /\ Len(gpu_frame) <= 2
    /\ (DriverAtVideoPacket /\ Len(video_packet) = 2) =>
           (~ENABLED DriverReadVideo /\ ENABLED VideoDecode)

C21_Witness ==
    /\ DriverAtVideoPacket
    /\ Len(video_packet) = 2
    /\ gpu_frame # <<>>
    /\ ~ENABLED DriverReadVideo

\* C22 as stated: a PlayerMessage sent while the driver runs its read loop is
\* consumed by the driver: when the driver has returned at the end of the
\* container, no message is left in the channel.
C22_CommandsConsumed ==
    pc = "done" => player_rx = <<>>

\* C23 as stated: parsing a string that is not one of the 13 short names fails
\* with an error that lists the valid values; parsing d.short_name() returns d
\* for every DeviceType d; the short names are pairwise distinct.
ShortNames == {short_name(d) : d \in DeviceType}
C23_NamesRoundTrip ==
    /\ Cardinality(DeviceType) = 13
    /\ Cardinality(ShortNames) = 13
    /\ args.from_str.op = "from_str" =>
           /\ args.from_str.s \notin ShortNames => ~args.from_str.result.ok
           /\ \A d \in DeviceType :
                  args.from_str.s = short_name(d) => args.from_str.result = Ok(d)
C23_ParseNames ==
    /\ C23_NamesRoundTrip
    /\ (args.from_str.op = "from_str" /\ ~args.from_str.result.ok) =>
           \A name \in ShortNames : name \in Range(args.from_str.result.error.expected)

\* C24: a step of video_scale that pushes a frame pushes it with the pts of the
\* raw frame it received, and with the instant anchor + pts when the raw frame
\* has a pts and an anchor snapshot, and none otherwise; the driver attaches its
\* anchor to a video packet it sends, video_decode and video_map_gpu_cpu pass
\* pts and snapshot on as they came, and none of the three stages changes the
\* driver's anchor.
LastOf(seq) == seq[Len(seq)]
PresentInstantStep ==
    /\ (Len(cpu_frame') < Len(cpu_frame) /\ video_queue' # video_queue) =>
           LET raw == Head(cpu_frame)
               frame == LastOf(video_queue'.data)
           IN  /\ frame.pts = raw.pts
               /\ frame.time = IF raw.pts # None /\ raw.sync # None
                               THEN Some(Unwrap(raw.sync) + Unwrap(raw.pts))
                               ELSE None
               /\ sync_time_opt' = sync_time_opt
    /\ Len(video_packet') > Len(video_packet) =>
           LastOf(video_packet').sync = sync_time_opt
    /\ Len(gpu_frame') > Len(gpu_frame) =>
           /\ LastOf(gpu_frame').pts = Head(video_packet).pts
           /\ LastOf(gpu_frame').sync = Head(video_packet).sync
           /\ sync_time_opt' = sync_time_opt
    /\ Len(cpu_frame') > Len(cpu_frame) =>
           /\ LastOf(cpu_frame').pts = Head(gpu_frame).pts
           /\ LastOf(cpu_frame').sync = Head(gpu_frame).sync
           /\ sync_time_opt' = sync_time_opt
PaceStep == pc = "pace" /\ pc' # "pace"
C25_SleepIfEitherExceeds ==
    [][PaceStep =>
           (pc' = "sleep" <=>
                (Duration(video_queue) > 250 \/ AudioDuration(audio_queue) > 250))]_vars

\* C25 amended: a pacing step sleeps exactly when the buffered durations of
\* both queues are above 250 ms, that is when the smaller of the two is, and
\* it sleeps for what the smaller one has above 250 ms; when one of the queues
\* is at or below 250 ms it does not sleep, however much the other holds.
C25_SleepIfBothExceed ==
    [][PaceStep =>
           LET v == Duration(video_queue)
               a == AudioDuration(audio_queue)
           IN  /\ pc' = "sleep" <=> (v > 250 /\ a > 250)
               /\ pc' = "sleep" => wake' = now + (MinOf({v, a}) - 250)
               /\ pc' # "sleep" => (pc' = "drain" /\ wake' = wake)]_vars

C25_Witness ==
    /\ pc = "sleep"
    /\ hist.pace.op = "pace"
    /\ hist.pace.video_queue_duration = 9950
    /\ AudioDuration(audio_queue) = 300
    /\ wake = now + 50

\* C26 as stated: video_decode ends by the flush: it signals end-of-stream to
\* the decoder once, after the driver has closed the video_packet channel and
\* every packet sent on it has been delivered to the decoder, drains the frames
\* and leaves its loop; once the driver is gone, a video_decode that has ended
\* has ended this way.
C26_FlushOrder ==
    thread.video_decode = "done" => (~DriverAlive /\ video_packet = <<>>)
C26_FlushOnce ==
    /\ C26_FlushOrder
    /\ (~DriverAlive /\ thread.video_decode \notin {"unspawned", "running"}) =>
           thread.video_decode = "done"

\* C27: with appends and callbacks interleaved in any way and no seek, the
\* samples the callbacks wrote that are not the silence of an underrun are, in
\* the order written, the first of the samples appended, in the order appended:
\* none is written twice, none is skipped, none is out of order, and the rest
\* is what the queue holds, made of whole planes only.
C27_AudioFifo ==
    LET appended == Concat(hist.fifo.chunks)
        written == hist.fifo.written
    IN  /\ Len(written) <= Len(appended)
        /\ written = SubSeq(appended, 1, Len(written))
        /\ \A i, j \in 1..Len(written) : i # j => written[i] # written[j]
        /\ appended = written \o audio_queue.data

C27_Witness ==
    /\ Len(hist.fifo.chunks) = 4
    /\ Len(hist.fifo.chunks[1]) # Len(hist.fifo.chunks[2])
    /\ hist.fifo.written = <<1, 2, 3, 4>>
    /\ audio_queue.data = <<5, 6>>
    /\ audio_queue.delay = 50

\* C28: once the driver has returned, at the end of the container or on an
\* error, every video thread that was spawned ends, and the VideoQueue is
\* pushed to no more; nothing tells the threads to stop but the channels.
C28_ThreadsEnd == ~DriverAlive ~> ~WorkerRunning

C28_Witness ==
    /\ pc = "done"
    /\ thread.video_decode = "done"
    /\ thread.video_map_gpu_cpu = "panicked"
    /\ thread.video_scale = "panicked"
    /\ video_packet = <<>> /\ gpu_frame = <<>> /\ cpu_frame = <<>>
    /\ Len(video_queue.data) = 2

\* C29 as stated, for the clean shutdown: in a run in which no transfer and no
\* decoding failed and the driver has returned at the end of the container, no
\* video thread is in a panic state.
TransferFailed == hist.map.op = "map" /\ hist.map.result = "panicked"
C29_NoPanicAtCleanEof ==
    (pc = "done" /\ hist.decode = "none" /\ ~TransferFailed) =>
        \A t \in DOMAIN thread : thread[t] # "panicked"

\* C30: the iterator starts at the first supported type, next() returns each
\* supported type once, in the order of the library, then None, and every
\* later call returns None and leaves the iterator where it is; a collect ends
\* after as many calls as there are supported types plus one, also when there
\* is none.
RECURSIVE InOrder(_)
InOrder(types) ==
    IF types = {} THEN <<>> ELSE <<MinOf(types)>> \o InOrder(types \ {MinOf(types)})

C30_IterFused ==
    iter # NoOp =>
        LET order == InOrder(iter.supported)
            n == Len(order)
        IN  /\ \A i \in 1..Len(iter.returned) :
                 iter.returned[i] = IF i <= n THEN Some(FromAV(order[i])) ELSE None
            /\ Len(iter.returned) >= n => iter.current = AV_HWDEVICE_TYPE_NONE
            /\ Len(iter.returned) < n => iter.current = order[Len(iter.returned) + 1]

C30_Witness ==
    /\ iter # NoOp
    /\ iter.supported = {2, 3, 11}
    /\ iter.returned = <<Some("Cuda"), Some("Vaapi"), Some("Vulkan"), None, None, None>>
    /\ iter.current = AV_HWDEVICE_TYPE_NONE

\* C31: no frame of a packet read before a seek reaches the VideoQueue after
\* the seek. While the anchor is unset (at the start, and from an applied seek
\* to the next audio chunk with a pts) no anchor has been established since,
\* so every frame in the VideoQueue has no presentation instant.
C31_NoStaleFrame ==
    sync_time_opt = None =>
        \A i \in 1..Len(video_queue.data) : video_queue.data[i].time = None

\* C32: nothing is lost between the driver and the VideoQueue, and the order is
\* kept: a step that takes a packet from video_packet puts its frame at the
\* back of gpu_frame, a step that takes a frame from gpu_frame puts it at the
\* back of cpu_frame, and a step that takes a frame from cpu_frame leaves it
\* at the back of the VideoQueue.
LosslessStep ==
    /\ (video_packet # <<>> /\ video_packet' = Tail(video_packet)) =>
           /\ gpu_frame' # <<>>
           /\ Len(gpu_frame') = Len(gpu_frame) + 1
           /\ LastOf(gpu_frame').pts = Head(video_packet).pts
    /\ (gpu_frame # <<>> /\ gpu_frame' = Tail(gpu_frame) /\ video_packet' = video_packet) =>
           /\ cpu_frame' # <<>>
           /\ Len(cpu_frame') = Len(cpu_frame) + 1
           /\ LastOf(cpu_frame').pts = Head(gpu_frame).pts
    /\ (cpu_frame # <<>> /\ cpu_frame' = Tail(cpu_frame) /\ gpu_frame' = gpu_frame) =>
           /\ video_queue'.data # <<>>
           /\ LastOf(video_queue'.data).pts = Head(cpu_frame).pts
C32_LosslessInOrder == [][LosslessStep]_vars

\* C33: a SeekRelative taken from player_rx while there is no last known audio
\* position is dropped: the container is not sought, the anchor, the position
\* and the two queues are as before, the driver stays in its command loop, and
\* the command is gone from the channel.
DiscardStep ==
    (player_rx # <<>> /\ seconds_opt = None /\ seek_log' # seek_log) =>
        /\ seek_log'.result = "discarded"
        /\ player_rx' = Tail(player_rx)
        /\ UNCHANGED <<ictx, sync_time_opt, seconds_opt, video_queue, audio_queue, pc>>
C33_SeekDiscarded == [][DiscardStep]_vars

C33_Witness ==
    /\ seek_log.op = "seek"
    /\ seek_log.result = "discarded"
    /\ seconds_opt = None
    /\ Len(video_queue.data) = 2
    /\ audio_queue.data # <<>>
    /\ player_rx = <<>>
    /\ pc = "drain"

\* C34: setting up the anchor never fails. Right after the driver has processed
\* audio frames of which the last has a pts, the driver has not aborted and
\* there is an anchor.
C34_AnchorNeverFails ==
    (/\ hist.audio.op = "received"
     /\ hist.audio.decoded # <<>>
     /\ LastOf(hist.audio.decoded).pts # None) =>
        /\ pc # "panicked"
        /\ sync_time_opt # None

\* C35: the samples in the AudioQueue when the driver returns at the end of the
\* container are still delivered: as long as the queue holds samples after the
\* driver has returned, the audio device can call data_fn.
C35_AudioDrainsAfterEof ==
    (pc = "done" /\ audio_queue.data # <<>>) => ENABLED AudioCallback

\* C36: no thread holds the AudioQueue mutex and the VideoQueue mutex at the
\* same time, and no two threads each hold one of them while waiting for the
\* other.
C36_OneMutexAtATime ==
    /\ \A t \in Threads : ~(mutex.audio = t /\ mutex.video = t)
    /\ \A t, u \in Threads :
           ~(/\ Current(t).op = "lock" /\ mutex[Current(t).mutex] = u
             /\ Current(u).op = "lock" /\ mutex[Current(u).mutex] = t)

C36_Witness ==
    /\ at["ffmpeg"] = 21
    /\ Current("ffmpeg").line = 624
    /\ mutex.video = "ffmpeg"
    /\ mutex.audio = "data_fn"
    /\ Current("video_scale").op = "lock"

\* C37: frames without a presentation instant are outside the discard rule. A
\* push of such a frame removes nothing and appends it; whatever is pushed, the
\* frames without an instant that were queued are all still queued, in their
\* order; and duration() is the span of the instants of the other frames.
Untimed(data) == SelectSeq(data, LAMBDA frame : frame.time = None)
C37_UntimedTransparent ==
    /\ (vq_op.op = "push" /\ vq_op.frame.time = None) =>
           video_queue.data = Append(vq_op.before, vq_op.frame)
    /\ vq_op.op = "push" =>
           Untimed(video_queue.data) = Untimed(Append(vq_op.before, vq_op.frame))
    /\ vq_op.op = "duration" =>
           vq_op.result = IF TimedInstants(vq_op.before) = {} THEN 0
                          ELSE MaxOf(TimedInstants(vq_op.before))
                               - MinOf(TimedInstants(vq_op.before))

C37_Witness ==
    /\ vq_op.op = "push"
    /\ Len(pushed) = 4
    /\ pushed[1].time = Some(9)
    /\ pushed[2].time = None
    /\ pushed[3].time = Some(3)
    /\ pushed[4].time = None
    /\ video_queue.data = <<pushed[2], pushed[3], pushed[4]>>

\* C38: a frame video_decode sends carries the anchor snapshot of the packet
\* its latest recv gave, and none if that recv failed: every frame yielded
\* after send_eof is sent without anchor and is pushed to the VideoQueue
\* without a presentation instant.
ExpectedTag(e) == IF e.received = None THEN None ELSE Unwrap(e.received).sync
C38_FlushFramesUntimed ==
    \A e \in video_decoder.emitted :
        /\ e.flush => e.received = None
        /\ \A i \in 1..Len(gpu_frame) :
               gpu_frame[i].pts = e.pts => gpu_frame[i].sync = ExpectedTag(e)
        /\ \A i \in 1..Len(cpu_frame) :
               cpu_frame[i].pts = e.pts => cpu_frame[i].sync = ExpectedTag(e)
        /\ \A i \in 1..Len(video_queue.data) :
               (video_queue.data[i].pts = e.pts /\ e.flush) =>
                   video_queue.data[i].time = None

C38_Witness ==
    /\ thread.video_decode = "done"
    /\ \E e \in video_decoder.emitted : e.flush /\ e.pts = Some(10000)
    /\ \E e \in video_decoder.emitted :
           ~e.flush /\ e.pts = Some(50) /\ e.received # None
           /\ Unwrap(e.received).pts = Some(10000) /\ Unwrap(e.received).sync # None
    /\ Len(video_queue.data) = 2
    /\ video_queue.data[1].pts = Some(50) /\ video_queue.data[1].time # None
    /\ video_queue.data[2].pts = Some(10000) /\ video_queue.data[2].time = None

====
